---- MODULE Spec2Model ----
(***************************************************************************)
(* Verification model of src/app.py: the JSON extraction and structure     *)
(* check (extract_json_from_response, generate_website_json), the page     *)
(* composer and assembler (generate_multi_page_html), the page-switch      *)
(* script of the assembled document (showPage) and the session state kept  *)
(* by main().                                                              *)
(*                                                                         *)
(* Text is a sequence of chunks.  A chunk is one lexical unit of the text: *)
(* a punctuation character, a run of three backticks, a whitespace run, or *)
(* a word.  JSON values are one-field records, the field name being the    *)
(* Python type: [str |-> chunks], [num |-> n], [arr |-> items],            *)
(* [obj |-> members] (members in insertion order, each [k |-> key chunks,  *)
(* v |-> value]) and [null |-> TRUE] for None.                             *)
(***************************************************************************)
EXTENDS Integers, Sequences, FiniteSets, TLC

VARIABLES
    website_data,    \* st.session_state.website_data, or Absent
    html_content,    \* st.session_state.html_content, or Absent
    current_view,    \* st.session_state.current_view, or Absent
    view_selector,   \* st.session_state.view_selector, the radio's option
    document,        \* the DOM of the preview iframe, or Absent
    model,           \* the value a pure-function run starts from
    response_text,   \* the text a pure-function run hands to the validator
    result,          \* what a pure-function run returned
    pc               \* position of the run

vars == <<website_data, html_content, current_view, view_selector, document,
          model, response_text, result, pc>>

(***************************************************************************)
(* Bounds of the model.                                                    *)
(***************************************************************************)
MaxPages == 2      \* pages of a website in a session run
MaxStrLen == 5     \* chunks of a content string in a validator run
MaxElems == 2      \* elements of a page layout in a composer run
MaxGlobal == 1     \* elements of the global header, and of the global footer

(***************************************************************************)
(* Chunks.                                                                 *)
(***************************************************************************)
LBRACE == "{"
RBRACE == "}"
LBRACK == "["
RBRACK == "]"
COLON == ":"
COMMA == ","
QUOTE == "\""
BSLASH == "\\"
TICKS == "BT3"     \* a run of three backticks
WS == " "

\* the numbers whose numerals the texts of the model hold
NumRange == -100 .. 300

Numerals == {ToString(n) : n \in NumRange}

NumeralValue == [c \in Numerals |-> CHOOSE n \in NumRange : ToString(n) = c]

IsNumChunk(c) == c \in Numerals

NumVal(c) == NumeralValue[c]

(***************************************************************************)
(* JSON values as Python holds them.                                       *)
(***************************************************************************)
None == [null |-> TRUE]
Absent == [absent |-> TRUE]
Raised == [raised |-> TRUE]

JStr(s) == [str |-> s]
JNum(n) == [num |-> n]
JArr(a) == [arr |-> a]
JObj(m) == [obj |-> m]
KV(key, val) == [k |-> <<key>>, v |-> val]

IsStr(v) == DOMAIN v = {"str"}
IsNum(v) == DOMAIN v = {"num"}
IsArr(v) == DOMAIN v = {"arr"}
IsObj(v) == DOMAIN v = {"obj"}

\* key in dict
HasKey(o, key) == \E i \in 1 .. Len(o.obj) : o.obj[i].k = <<key>>

\* dict.get(key, default)
Get(o, key, default) ==
    IF HasKey(o, key)
    THEN o.obj[CHOOSE i \in 1 .. Len(o.obj) :
                  /\ o.obj[i].k = <<key>>
                  /\ \A j \in (i + 1) .. Len(o.obj) : o.obj[j].k # <<key>>].v
    ELSE default

\* Python truthiness: None, {}, [], "" and 0 are falsy
Truthy(v) ==
    CASE IsStr(v) -> v.str # <<>>
      [] IsNum(v) -> v.num # 0
      [] IsArr(v) -> v.arr # <<>>
      [] IsObj(v) -> v.obj # <<>>
      [] OTHER -> FALSE

(***************************************************************************)
(* json.dumps(value, indent=2): the text of the JSON download.             *)
(***************************************************************************)
RECURSIVE Escape(_)
Escape(s) ==
    IF s = <<>> THEN <<>>
    ELSE (IF Head(s) \in {QUOTE, BSLASH} THEN <<BSLASH, Head(s)>> ELSE <<Head(s)>>)
         \o Escape(Tail(s))

RECURSIVE Dumps(_), DumpItems(_), DumpMembers(_)
Dumps(v) ==
    CASE IsStr(v) -> <<QUOTE>> \o Escape(v.str) \o <<QUOTE>>
      [] IsNum(v) -> <<ToString(v.num)>>
      [] IsArr(v) -> IF v.arr = <<>> THEN <<LBRACK, RBRACK>>
                     ELSE <<LBRACK, WS>> \o DumpItems(v.arr) \o <<WS, RBRACK>>
      [] IsObj(v) -> IF v.obj = <<>> THEN <<LBRACE, RBRACE>>
                     ELSE <<LBRACE, WS>> \o DumpMembers(v.obj) \o <<WS, RBRACE>>
      [] OTHER -> <<"null">>

DumpItems(a) ==
    IF Len(a) = 1 THEN Dumps(a[1])
    ELSE Dumps(a[1]) \o <<COMMA, WS>> \o DumpItems(Tail(a))

DumpMembers(m) ==
    LET one == <<QUOTE>> \o Escape(m[1].k) \o <<QUOTE, COLON, WS>> \o Dumps(m[1].v)
    IN IF Len(m) = 1 THEN one ELSE one \o <<COMMA, WS>> \o DumpMembers(Tail(m))

(***************************************************************************)
(* json.loads(text).                                                       *)
(***************************************************************************)
Fail == [ok |-> FALSE, val |-> None, pos |-> 0]

\* first position at or after i that holds no whitespace (Len(t) + 1 if none)
SkipWs(t, i) ==
    CHOOSE j \in i .. (Len(t) + 1) :
        /\ \A k \in i .. (j - 1) : t[k] = WS
        /\ j = Len(t) + 1 \/ t[j] # WS

RECURSIVE ScanString(_, _, _)
ScanString(t, j, acc) ==
    IF j > Len(t) THEN Fail
    ELSE IF t[j] = QUOTE THEN [ok |-> TRUE, val |-> JStr(acc), pos |-> j + 1]
    ELSE IF t[j] = BSLASH
         THEN IF j + 1 <= Len(t) /\ t[j + 1] \in {QUOTE, BSLASH}
              THEN ScanString(t, j + 2, Append(acc, t[j + 1]))
              ELSE Fail
    ELSE ScanString(t, j + 1, Append(acc, t[j]))

RECURSIVE ParseValue(_, _), ParseItems(_, _, _), ParseMembers(_, _, _)
ParseValue(t, i) ==
    LET j == SkipWs(t, i)
    IN IF j > Len(t) THEN Fail
       ELSE IF t[j] = QUOTE THEN ScanString(t, j + 1, <<>>)
       ELSE IF t[j] = "null" THEN [ok |-> TRUE, val |-> None, pos |-> j + 1]
       ELSE IF IsNumChunk(t[j]) THEN [ok |-> TRUE, val |-> JNum(NumVal(t[j])), pos |-> j + 1]
       ELSE IF t[j] = LBRACK
            THEN LET k == SkipWs(t, j + 1)
                 IN IF k <= Len(t) /\ t[k] = RBRACK
                    THEN [ok |-> TRUE, val |-> JArr(<<>>), pos |-> k + 1]
                    ELSE ParseItems(t, j + 1, <<>>)
       ELSE IF t[j] = LBRACE
            THEN LET k == SkipWs(t, j + 1)
                 IN IF k <= Len(t) /\ t[k] = RBRACE
                    THEN [ok |-> TRUE, val |-> JObj(<<>>), pos |-> k + 1]
                    ELSE ParseMembers(t, j + 1, <<>>)
       ELSE Fail

ParseItems(t, i, acc) ==
    LET r == ParseValue(t, i)
    IN IF ~r.ok THEN Fail
       ELSE LET k == SkipWs(t, r.pos)
            IN IF k > Len(t) THEN Fail
               ELSE IF t[k] = COMMA THEN ParseItems(t, k + 1, Append(acc, r.val))
               ELSE IF t[k] = RBRACK
                    THEN [ok |-> TRUE, val |-> JArr(Append(acc, r.val)), pos |-> k + 1]
               ELSE Fail

ParseMembers(t, i, acc) ==
    LET j == SkipWs(t, i)
    IN IF j > Len(t) \/ t[j] # QUOTE THEN Fail
       ELSE LET key == ScanString(t, j + 1, <<>>)
            IN IF ~key.ok THEN Fail
               ELSE LET c == SkipWs(t, key.pos)
                    IN IF c > Len(t) \/ t[c] # COLON THEN Fail
                       ELSE LET r == ParseValue(t, c + 1)
                            IN IF ~r.ok THEN Fail
                               ELSE LET k == SkipWs(t, r.pos)
                                        m == Append(acc, [k |-> key.val.str, v |-> r.val])
                                    IN IF k > Len(t) THEN Fail
                                       ELSE IF t[k] = COMMA THEN ParseMembers(t, k + 1, m)
                                       ELSE IF t[k] = RBRACE
                                            THEN [ok |-> TRUE, val |-> JObj(m), pos |-> k + 1]
                                       ELSE Fail

\* json.loads: ok is FALSE where Python raises JSONDecodeError
Loads(t) ==
    LET r == ParseValue(t, 1)
    IN IF r.ok /\ SkipWs(t, r.pos) = Len(t) + 1 THEN r ELSE Fail

(***************************************************************************)
(* extract_json_from_response and the structure check of                   *)
(* generate_website_json.                                                  *)
(***************************************************************************)
\* the pattern TICKS json \s* ( { [\s\S]*? } ) \s* TICKS: the group of a
\* match that starts at i opens at GroupStart(t, i) and may close at e
GroupStart(t, i) == SkipWs(t, i + 2)

ClosesGroup(t, e) ==
    /\ t[e] = RBRACE
    /\ SkipWs(t, e + 1) <= Len(t)
    /\ t[SkipWs(t, e + 1)] = TICKS

GroupEnds(t, i) == {e \in (GroupStart(t, i) + 1) .. Len(t) : ClosesGroup(t, e)}

FenceStarts(t) ==
    {i \in 1 .. (Len(t) - 1) :
        /\ t[i] = TICKS
        /\ t[i + 1] = "json"
        /\ GroupStart(t, i) <= Len(t)
        /\ t[GroupStart(t, i)] = LBRACE
        /\ GroupEnds(t, i) # {}}

\* re.search: the leftmost start, and the lazy quantifier's shortest group
FenceGroup(t) ==
    LET i == CHOOSE x \in FenceStarts(t) : \A y \in FenceStarts(t) : x <= y
        e == CHOOSE x \in GroupEnds(t, i) : \A y \in GroupEnds(t, i) : x <= y
    IN SubSeq(t, GroupStart(t, i), e)

\* the text that reaches json.loads
ExtractedText(t) == IF FenceStarts(t) # {} THEN FenceGroup(t) ELSE t

\* extract_json_from_response: the parsed value, None on JSONDecodeError
extract_json_from_response(t) ==
    LET r == Loads(ExtractedText(t))
    IN IF r.ok THEN r.val ELSE None

\* "pages" in wireframe_data, for the types the operator is defined on
ContainsPages(v) ==
    CASE IsObj(v) -> HasKey(v, "pages")
      [] IsArr(v) -> \E i \in 1 .. Len(v.arr) : v.arr[i] = JStr(<<"pages">>)
      [] IsStr(v) -> \E i \in 1 .. Len(v.str) : v.str[i] = "pages"
      [] OTHER -> FALSE

\* generate_website_json after the outbound call returned text t: a truthy
\* number raises TypeError at the membership test, caught by the handler
generate_website_json(t) ==
    LET wireframe_data == extract_json_from_response(t)
    IN IF ~Truthy(wireframe_data) THEN None
       ELSE IF IsNum(wireframe_data) THEN None
       ELSE IF ~ContainsPages(wireframe_data) THEN None
       ELSE wireframe_data

(***************************************************************************)
(* generate_element_html.  A rendered block is its class, its style as the *)
(* sequence of declarations in the order the style attribute holds them,   *)
(* and its inner content.                                                  *)
(***************************************************************************)
DefaultX == 5
DefaultY == 0
DefaultWidth == 90
DefaultHeight == 80
DefaultFontSize == 14
DefaultExtentHeight == 0
InitialMaxY == 0
ExtentPadding == 120

\* str(value) as an f-string formats it, for strings, numbers and None
Format(v) ==
    CASE IsStr(v) -> v.str
      [] IsNum(v) -> <<ToString(v.num)>>
      [] v = None -> <<"None">>

\* str.replace("'", "&#39;")
RECURSIVE EscapeApostrophe(_)
EscapeApostrophe(s) ==
    IF s = <<>> THEN <<>>
    ELSE <<IF Head(s) = "'" THEN "&#39;" ELSE Head(s)>> \o EscapeApostrophe(Tail(s))

Decl(prop, val) == [prop |-> prop, val |-> val]

\* the declarations the branch of the element type appends to the style
TypeStyle(elem_type) ==
    CASE elem_type = JStr(<<"section">>) ->
            <<Decl("background-color", <<"#ffffff">>), Decl("border", <<"1px solid #e0e0e0">>)>>
      [] elem_type = JStr(<<"card">>) ->
            <<Decl("background-color", <<"#f8f8ff">>), Decl("border", <<"1px solid #d0d0ff">>)>>
      [] elem_type = JStr(<<"button">>) ->
            <<Decl("background-color", <<"#007bff">>), Decl("color", <<"white">>),
              Decl("border", <<"none">>), Decl("font-size", <<"14", "px">>)>>
      [] elem_type = JStr(<<"input">>) ->
            <<Decl("background-color", <<"white">>), Decl("border", <<"1px dashed #777">>),
              Decl("font-size", <<"14", "px">>), Decl("color", <<"#555">>)>>
      [] elem_type = JStr(<<"image">>) ->
            <<Decl("background-color", <<"#e0e0e0">>), Decl("border", <<"2px dashed #999">>),
              Decl("color", <<"#555">>)>>
      [] elem_type = JStr(<<"text">>) ->
            <<Decl("background-color", <<"#ffffff">>), Decl("border", <<"none">>),
              Decl("color", <<"#333">>)>>
      [] elem_type \in {JStr(<<"header">>), JStr(<<"footer">>)} ->
            <<Decl("background-color", <<"#333333">>), Decl("color", <<"white">>),
              Decl("border", <<"none">>), Decl("font-size", <<"18", "px">>)>>
      [] OTHER -> <<>>

\* the text the branch of the element type puts before the content
TypePrefix(elem_type) ==
    CASE elem_type = JStr(<<"section">>) -> <<"SECTION: ">>
      [] elem_type = JStr(<<"card">>) -> <<"CARD: ">>
      [] elem_type = JStr(<<"input">>) -> <<"Input: ">>
      [] elem_type = JStr(<<"image">>) -> <<"[Image Placeholder: ">>
      [] OTHER -> <<>>

\* the colour and font-size declarations in the style attribute of the inner
\* div that the branch of the element type writes
InnerStyle(elem_type) ==
    CASE elem_type = JStr(<<"section">>) ->
            <<Decl("font-size", <<"16", "px">>), Decl("color", <<"#555">>)>>
      [] elem_type = JStr(<<"card">>) ->
            <<Decl("font-size", <<"14", "px">>), Decl("color", <<"#555">>)>>
      [] elem_type = JStr(<<"image">>) -> <<Decl("font-size", <<"14", "px">>)>>
      [] elem_type = JStr(<<"text">>) -> <<Decl("font-size", <<"14", "px">>)>>
      [] OTHER -> <<>>

\* where generate_element_html raises: a non-dict element has no get(), a
\* non-string content has no replace(), a non-string type has no upper()
ElementHtmlRaises(element) ==
    \/ ~IsObj(element)
    \/ ~IsStr(Get(element, "content", JStr(<<"Placeholder Content">>)))
    \/ ~IsStr(Get(element, "type", JStr(<<"section">>)))

generate_element_html(element) ==
    IF ElementHtmlRaises(element) THEN Raised
    ELSE LET elem_type == Get(element, "type", JStr(<<"section">>))
             content == Get(element, "content", JStr(<<"Placeholder Content">>))
             x == Get(element, "x", JNum(DefaultX))
             y == Get(element, "y", JNum(DefaultY))
             width == Get(element, "width", JNum(DefaultWidth))
             height == Get(element, "height", JNum(DefaultHeight))
             style == <<Decl("left", Format(x) \o <<"%">>),
                        Decl("top", Format(y) \o <<"px">>),
                        Decl("width", Format(width) \o <<"%">>),
                        Decl("height", Format(height) \o <<"px">>),
                        Decl("color", Format(Get(element, "textColor", JStr(<<"#333">>)))),
                        Decl("font-size",
                             Format(Get(element, "fontSize", JNum(DefaultFontSize))) \o <<"px">>)>>
         IN [class |-> elem_type.str,
             style |-> style \o TypeStyle(elem_type),
             inner_style |-> InnerStyle(elem_type),
             inner |-> TypePrefix(elem_type) \o EscapeApostrophe(content.str)]

(***************************************************************************)
(* generate_multi_page_html: the composer and the assembler.               *)
(***************************************************************************)
\* the sort key, lambda el: el.get("y", 0)
KeyY(el) == Get(el, "y", JNum(DefaultY))

\* el put into the sorted list after every element whose key is not larger
InsertByY(sorted, el) ==
    LET at == Cardinality({i \in 1 .. Len(sorted) : KeyY(sorted[i]).num <= KeyY(el).num})
    IN SubSeq(sorted, 1, at) \o <<el>> \o SubSeq(sorted, at + 1, Len(sorted))

\* el put into the sorted list before every element whose key is not smaller
InsertByYBeforeEqual(sorted, el) ==
    LET at == Cardinality({i \in 1 .. Len(sorted) : KeyY(sorted[i]).num < KeyY(el).num})
    IN SubSeq(sorted, 1, at) \o <<el>> \o SubSeq(sorted, at + 1, Len(sorted))

\* a sort that does not keep the order of elements with equal keys
RECURSIVE SortByYUnstable(_)
SortByYUnstable(elements) ==
    IF elements = <<>> THEN <<>>
    ELSE InsertByYBeforeEqual(SortByYUnstable(SubSeq(elements, 1, Len(elements) - 1)),
                              elements[Len(elements)])

\* list.sort(key=...): ascending, elements with equal keys keep their order
RECURSIVE SortByY(_)
SortByY(elements) ==
    IF elements = <<>> THEN <<>>
    ELSE InsertByY(SortByY(SubSeq(elements, 1, Len(elements) - 1)), elements[Len(elements)])

\* max(current_max_y, el.get("y", 0) + el.get("height", 0))
MaxWithBottom(current_max_y, el) ==
    LET bottom == KeyY(el).num + Get(el, "height", JNum(DefaultExtentHeight)).num
    IN IF bottom > current_max_y THEN bottom ELSE current_max_y

\* a running maximum that starts from the first element, not from 0
RECURSIVE CurrentMaxYFromFirst(_)
CurrentMaxYFromFirst(elements) ==
    IF elements = <<>> THEN InitialMaxY
    ELSE IF Len(elements) = 1
         THEN KeyY(elements[1]).num + Get(elements[1], "height", JNum(DefaultExtentHeight)).num
    ELSE MaxWithBottom(CurrentMaxYFromFirst(SubSeq(elements, 1, Len(elements) - 1)),
                       elements[Len(elements)])

\* the loop over all_elements: current_max_y after the elements given
RECURSIVE CurrentMaxY(_)
CurrentMaxY(elements) ==
    IF elements = <<>> THEN InitialMaxY
    ELSE MaxWithBottom(CurrentMaxY(SubSeq(elements, 1, Len(elements) - 1)),
                       elements[Len(elements)])

\* an element the sort, the renderer and the extent sum all accept
ElementRenders(el) ==
    /\ IsObj(el)
    /\ IsNum(KeyY(el))
    /\ IsNum(Get(el, "height", JNum(DefaultExtentHeight)))
    /\ ~ElementHtmlRaises(el)

\* what iterating a value yields; Raised where it is not iterable
Iterate(v) ==
    CASE IsArr(v) -> [items |-> v.arr]
      [] IsObj(v) -> [items |-> [i \in 1 .. Len(v.obj) |-> JStr(v.obj[i].k)]]
      [] IsStr(v) -> [items |-> [i \in 1 .. Len(v.str) |-> JStr(<<v.str[i]>>)]]
      [] OTHER -> Raised

\* one turn of the loop over the pages (i counts from 0)
ComposePage(page, i, global_header, global_footer) ==
    IF ~IsObj(page) THEN Raised
    ELSE LET pid == Format(Get(page, "pageId", JStr(<<"page-" \o ToString(i)>>)))
             ptitle == Format(Get(page, "pageTitle", JStr(<<"Page " \o ToString(i + 1)>>)))
             bg == Format(Get(page, "backgroundColor", JStr(<<"#ffffff">>)))
             layout == Get(page, "layout", JArr(<<>>))
         IN IF ~IsArr(global_header) \/ ~IsArr(layout) \/ ~IsArr(global_footer) THEN Raised
            ELSE LET joined == global_header.arr \o layout.arr \o global_footer.arr
                 IN IF \E k \in 1 .. Len(joined) : ~ElementRenders(joined[k]) THEN Raised
                    ELSE LET all_elements == SortByY(joined)
                         IN [tab |-> [onclick |-> pid, label |-> ptitle, active |-> (i = 0)],
                             page |-> [id |-> pid,
                                       background |-> bg,
                                       display |-> IF i = 0 THEN "block" ELSE "none",
                                       min_height |-> CurrentMaxY(all_elements) + ExtentPadding,
                                       elements |-> [k \in 1 .. Len(all_elements) |->
                                                       generate_element_html(all_elements[k])]]]

EmptyHtml == [text |-> <<>>]

generate_multi_page_html(data) ==
    IF ~Truthy(data) THEN EmptyHtml
    ELSE IF ~IsObj(data) THEN Raised
    ELSE LET header_holder == Get(data, "globalHeader", JObj(<<>>))
             footer_holder == Get(data, "globalFooter", JObj(<<>>))
             iterated == Iterate(Get(data, "pages", JArr(<<>>)))
             pages == iterated.items
         IN IF ~IsObj(header_holder) \/ ~IsObj(footer_holder) \/ iterated = Raised THEN Raised
            ELSE LET global_header == Get(header_holder, "layout", JArr(<<>>))
                     global_footer == Get(footer_holder, "layout", JArr(<<>>))
                     composed == [i \in 1 .. Len(pages) |->
                                    ComposePage(pages[i], i - 1, global_header, global_footer)]
                 IN IF \E i \in 1 .. Len(pages) : composed[i] = Raised THEN Raised
                    ELSE [title |-> Get(data, "websiteTitle", JStr(<<"AI Wireframe Website">>)),
                          page_tabs |-> [i \in 1 .. Len(pages) |-> composed[i].tab],
                          page_contents |-> [i \in 1 .. Len(pages) |-> composed[i].page]]

(***************************************************************************)
(* The assembled document in the browser.  The page containers and the tab *)
(* buttons are emitted twice, under #desktop-content and #mobile-content.  *)
(***************************************************************************)
\* words that start with a digit
DigitLedWords == {"2fa"}

IsIdentChunk(c) ==
    /\ c \notin {LBRACE, RBRACE, LBRACK, RBRACK, COLON, COMMA, QUOTE, BSLASH, TICKS, WS, "'"}
    /\ c \notin DigitLedWords
    /\ ~IsNumChunk(c)

\* how '#desktop-content #' + id parses as a selector: an id selector, an id
\* selector with a descendant type selector (id holding a space), or not at
\* all (querySelector throws SyntaxError)
SelectorKind(id) ==
    IF Len(id) = 1 /\ IsIdentChunk(id[1]) THEN "id"
    ELSE IF Len(id) = 3 /\ IsIdentChunk(id[1]) /\ id[2] = WS /\ IsIdentChunk(id[3])
         THEN "descendant"
    ELSE "invalid"

\* querySelector(container + ' #' + id): the index of the first page
\* container with that id, 0 for null
QueryPage(page_ids, id) ==
    IF SelectorKind(id) = "id" /\ \E i \in 1 .. Len(page_ids) : page_ids[i] = id
    THEN CHOOSE i \in 1 .. Len(page_ids) :
             /\ page_ids[i] = id
             /\ \A j \in 1 .. (i - 1) : page_ids[j] # id
    ELSE 0

\* the document as parsed from html_content followed by the injected
\* script switchView(js_mode), before any script ran
ParsedDocument(html, js_mode) ==
    LET n == Len(html.page_contents)
        shown == [i \in 1 .. n |-> html.page_contents[i].display = "block"]
        active == [i \in 1 .. n |-> html.page_tabs[i].active]
    IN [phase |-> "parsed",
        js_mode |-> js_mode,
        page_ids |-> [i \in 1 .. n |-> html.page_contents[i].id],
        tab_ids |-> [i \in 1 .. n |-> html.page_tabs[i].onclick],
        desktop_pages |-> shown,
        mobile_pages |-> shown,
        desktop_tabs |-> active,
        mobile_tabs |-> active,
        desktop_view |-> TRUE,
        mobile_view |-> FALSE,
        edit_mode |-> FALSE,
        currentView |-> "desktop"]

\* function showPage(id)
showPage(d, id) ==
    LET n == Len(d.page_ids)
        hidden == [i \in 1 .. n |-> FALSE]
        page == QueryPage(d.page_ids, id)
        only == [i \in 1 .. n |-> i = page]
        tabs == [i \in 1 .. n |-> d.tab_ids[i] = id]
    IN IF SelectorKind(id) = "invalid"
       THEN [d EXCEPT !.desktop_pages = hidden]
       ELSE [d EXCEPT !.desktop_pages = only,
                      !.mobile_pages = only,
                      !.desktop_tabs = tabs,
                      !.mobile_tabs = tabs]

\* the id inside the onclick of the first tab button that satisfies the
\* test, <<>> when there is none (the desktop tabs come first in the document)
FirstTabId(d, active_only) ==
    LET n == Len(d.tab_ids)
        hits == {i \in 1 .. n : ~active_only \/ d.desktop_tabs[i]}
        mobile_hits == {i \in 1 .. n : d.mobile_tabs[i]}
    IN IF hits # {} THEN d.tab_ids[CHOOSE i \in hits : \A j \in hits : i <= j]
       ELSE IF active_only /\ mobile_hits # {}
            THEN d.tab_ids[CHOOSE i \in mobile_hits : \A j \in mobile_hits : i <= j]
       ELSE <<>>

\* function switchView(mode)
switchView(d, mode) ==
    LET viewed == [d EXCEPT !.currentView = mode,
                            !.edit_mode = (mode = "edit"),
                            !.desktop_view = IF mode = "mobile" THEN FALSE
                                             ELSE IF mode \in {"desktop", "edit"} THEN TRUE
                                             ELSE @,
                            !.mobile_view = IF mode = "mobile" THEN TRUE
                                            ELSE IF mode \in {"desktop", "edit"} THEN FALSE
                                            ELSE @]
        activeId == FirstTabId(d, TRUE)
    IN IF activeId # <<>> THEN showPage(viewed, activeId) ELSE viewed

\* the DOMContentLoaded listener
OnDOMContentLoaded(d) ==
    LET firstId == FirstTabId(d, FALSE)
    IN IF firstId # <<>> THEN showPage(d, firstId) ELSE d

(***************************************************************************)
(* main(): the session.                                                    *)
(***************************************************************************)
ViewOptions == {"Desktop View", "Mobile View", "Edit Mode"}

\* st.session_state.view_selector.lower().split()[0]
ViewOf(option) ==
    CASE option = "Desktop View" -> "desktop"
      [] option = "Mobile View" -> "mobile"
      [] option = "Edit Mode" -> "edit"

\* page ids the responses of a session run use: two plain words, a word that
\* starts with a digit and two words with a space between
PageIdChoices == {<<"home">>, <<"login">>, <<"2fa">>, <<"my", WS, "page">>}

UnknownIds == {<<"nope">>}

SeqsUpTo(S, n) == UNION {[1 .. k -> S] : k \in 0 .. n}

Page(id, layout) == JObj(<<KV("pageId", JStr(id)), KV("layout", JArr(layout))>>)

Website(pages) == JObj(<<KV("pages", JArr(pages))>>)

Fenced(t) == <<TICKS, "json", WS>> \o t \o <<WS, TICKS>>

GoodResponses ==
    {Dumps(Website([i \in 1 .. Len(ids) |-> Page(ids[i], <<>>)])) :
        ids \in SeqsUpTo(PageIdChoices, MaxPages) \ {<<>>}}

OtherResponses ==
    {<<"Sorry", WS, "no">>,
     <<LBRACE, QUOTE, "pages", QUOTE, COLON>>,
     Dumps(JObj(<<KV("websiteTitle", JStr(<<"a">>))>>)),
     Dumps(Website(<<>>)),
     Dumps(JObj(<<KV("pages", JNum(5))>>)),
     Dumps(JArr(<<JStr(<<"pages">>)>>)),
     Dumps(Website(<<JObj(<<KV("pageId", JStr(<<"home">>))>>)>>)),
     Dumps(Website(<<Page(<<"home">>, <<JObj(<<KV("content", JNum(5))>>)>>)>>)),
     Fenced(Dumps(Website(<<Page(<<"home">>,
                                 <<JObj(<<KV("type", JStr(<<"button">>)),
                                          KV("y", JNum(200)),
                                          KV("height", JNum(40)),
                                          KV("content", JStr(<<"Go">>))>>)>>)>>)))}

Responses == GoodResponses \cup OtherResponses

\* generate_website_json and generate_multi_page_html, tabulated over the
\* responses of a session run
WebsiteJsonOf == [t \in Responses |-> generate_website_json(t)]

MultiPageHtmlOf == [t \in Responses |-> generate_multi_page_html(WebsiteJsonOf[t])]

\* the rest of a run of main() once the session state is html and view: the
\* preview is drawn when html_content is set.  The iframe is loaded anew, or
\* kept when its source is the one it already shows.
Preview(html, view, selector) ==
    LET js_mode == IF view = "unset" THEN "desktop" ELSE view   \* session_state.get
        fresh == ParsedDocument(html, js_mode)
    IN IF html = Absent
       THEN document' = Absent /\ view_selector' = selector
       ELSE /\ view_selector' = IF selector = "unset" THEN "Desktop View" ELSE selector
            /\ \/ document' = fresh
               \/ /\ document # Absent
                  /\ html = html_content
                  /\ document.js_mode = js_mode
                  /\ document' = document

SessionInit ==
    /\ website_data = Absent
    /\ html_content = Absent
    /\ current_view = "unset"
    /\ view_selector = "unset"
    /\ document = Absent
    /\ model = None
    /\ response_text = <<>>
    /\ result = Absent
    /\ pc = "session"

\* the button with a blank prompt: a warning, then the preview
GenerateBlankPrompt ==
    /\ pc = "session"
    /\ Preview(html_content, current_view, view_selector)
    /\ UNCHANGED <<website_data, html_content, current_view, model, response_text, result, pc>>

\* the button when the outbound call raises: generate_website_json returns
\* None
GenerateCallFails ==
    /\ pc = "session"
    /\ Preview(html_content, current_view, view_selector)
    /\ UNCHANGED <<website_data, html_content, current_view, model, response_text, result, pc>>

\* the button when the outbound call returns the text t
Generate(t) ==
    /\ pc = "session"
    /\ LET data == WebsiteJsonOf[t]
           html == MultiPageHtmlOf[t]
       IN IF ~Truthy(data)
          THEN /\ Preview(html_content, current_view, view_selector)
               /\ UNCHANGED <<website_data, html_content, current_view>>
          ELSE IF html = Raised
          THEN \* the exception leaves main() after line 529
               /\ website_data' = data
               /\ document' = Absent
               /\ UNCHANGED <<html_content, current_view, view_selector>>
          ELSE /\ website_data' = data
               /\ html_content' = html
               /\ current_view' = "desktop"
               /\ Preview(html, "desktop", view_selector)
    /\ UNCHANGED <<model, response_text, result, pc>>

\* a choice in the radio: the on_change callback, then a run of main()
SelectView(option) ==
    /\ pc = "session"
    /\ document # Absent
    /\ option # view_selector
    /\ current_view' = ViewOf(option)
    /\ Preview(html_content, ViewOf(option), option)
    /\ UNCHANGED <<website_data, html_content, model, response_text, result, pc>>

\* a run of main() with no button pressed
Rerun ==
    /\ pc = "session"
    /\ Preview(html_content, current_view, view_selector)
    /\ UNCHANGED <<website_data, html_content, current_view, model, response_text, result, pc>>

\* the injected script runs while the document is parsed
InjectedScript ==
    /\ pc = "session"
    /\ document # Absent
    /\ document.phase = "parsed"
    /\ document' = [switchView(document, document.js_mode) EXCEPT !.phase = "injected"]
    /\ UNCHANGED <<website_data, html_content, current_view, view_selector,
                   model, response_text, result, pc>>

DOMContentLoaded ==
    /\ pc = "session"
    /\ document # Absent
    /\ document.phase = "injected"
    /\ document' = [OnDOMContentLoaded(document) EXCEPT !.phase = "ready"]
    /\ UNCHANGED <<website_data, html_content, current_view, view_selector,
                   model, response_text, result, pc>>

\* a click on the i-th tab button
ClickTab(i) ==
    /\ pc = "session"
    /\ document # Absent
    /\ document.phase = "ready"
    /\ i \in 1 .. Len(document.tab_ids)
    /\ document' = showPage(document, document.tab_ids[i])
    /\ UNCHANGED <<website_data, html_content, current_view, view_selector,
                   model, response_text, result, pc>>

\* showPage called with an id that no page of the document has
ShowUnknownPage(id) ==
    /\ pc = "session"
    /\ document # Absent
    /\ document.phase = "ready"
    /\ \A i \in 1 .. Len(document.page_ids) : document.page_ids[i] # id
    /\ document' = showPage(document, id)
    /\ UNCHANGED <<website_data, html_content, current_view, view_selector,
                   model, response_text, result, pc>>

Next ==
    \/ GenerateBlankPrompt
    \/ GenerateCallFails
    \/ \E t \in Responses : Generate(t)
    \/ \E option \in ViewOptions : SelectView(option)
    \/ Rerun
    \/ InjectedScript
    \/ DOMContentLoaded
    \/ \E i \in 1 .. MaxPages : ClickTab(i)
    \/ \E id \in UnknownIds : ShowUnknownPage(id)

Spec == SessionInit /\ [][Next]_vars

(***************************************************************************)
(* Runs of the validator alone: a value is written as the JSON download    *)
(* writes it, possibly wrapped in a json-labelled fence, and handed to     *)
(* generate_website_json.                                                  *)
(***************************************************************************)
StringChunks == {"a", LBRACE, RBRACE, TICKS, "json", QUOTE}

ContentStrings == SeqsUpTo(StringChunks, MaxStrLen)

TitleStrings == {<<>>, <<"a">>, <<RBRACE, TICKS>>, <<BSLASH, QUOTE>>}

Element(content) == JObj(<<KV("type", JStr(<<"text">>)), KV("content", JStr(content))>>)

ValidatorModels ==
    {Website(<<Page(<<"home">>, <<Element(c)>>)>>) : c \in ContentStrings}
    \cup {Website(<<Page(<<"login">>, <<>>),
                    JObj(<<KV("pageId", JStr(<<"home">>)),
                           KV("pageTitle", JStr(c)),
                           KV("layout", JArr(<<>>))>>)>>) : c \in TitleStrings}
    \cup {JObj(<<KV("websiteTitle", JStr(c)), KV("pages", JArr(<<Page(<<"home">>, <<>>)>>))>>) :
             c \in TitleStrings}
    \cup {JObj(<<>>),
          JObj(<<KV("websiteTitle", JStr(<<"a">>))>>),
          Website(<<>>),
          JObj(<<KV("pages", JNum(5))>>),
          JObj(<<KV("pages", JStr(<<"a">>))>>),
          JObj(<<KV("pages", None)>>),
          Website(<<JNum(5)>>),
          Website(<<JObj(<<KV("pageId", JStr(<<"home">>))>>)>>),
          Website(<<JObj(<<KV("pageId", JStr(<<"home">>)), KV("layout", JNum(5))>>)>>),
          JArr(<<JStr(<<"pages">>)>>),
          JStr(<<"pages">>),
          JNum(5),
          None}

ValidatorInit ==
    /\ model \in ValidatorModels
    /\ response_text = <<>>
    /\ result = Absent
    /\ pc = "model"
    /\ website_data = Absent
    /\ html_content = Absent
    /\ current_view = "unset"
    /\ view_selector = "unset"
    /\ document = Absent

\* the JSON download: json.dumps(website_data, indent=2)
Download ==
    /\ pc = "model"
    /\ response_text' = Dumps(model)
    /\ pc' = "bare"
    /\ UNCHANGED <<website_data, html_content, current_view, view_selector, document,
                   model, result>>

\* the text comes back inside a json-labelled fenced code block
WrapInFence ==
    /\ pc = "bare"
    /\ response_text' = Fenced(response_text)
    /\ pc' = "fenced"
    /\ UNCHANGED <<website_data, html_content, current_view, view_selector, document,
                   model, result>>

Validate ==
    /\ pc \in {"bare", "fenced"}
    /\ result' = generate_website_json(response_text)
    /\ pc' = IF pc = "bare" THEN "validated bare" ELSE "validated fenced"
    /\ UNCHANGED <<website_data, html_content, current_view, view_selector, document,
                   model, response_text>>

ValidatorNext == Download \/ WrapInFence \/ Validate

ValidatorSpec == ValidatorInit /\ [][ValidatorNext]_vars

(***************************************************************************)
(* Runs of the composer alone: one page with a global header and footer.   *)
(***************************************************************************)
YChoices == {-50, 0, 40}

HeightChoices == {40}

\* the "y" member and the "height" member of an element, each possibly missing
YMembers == {<<>>} \cup {<<KV("y", JNum(y))>> : y \in YChoices}

HeightMembers == {<<>>} \cup {<<KV("height", JNum(h))>> : h \in HeightChoices}

\* the elements named by the content name
ElementsNamed(name) ==
    {JObj(<<KV("content", JStr(<<name>>))>> \o y \o h) : y \in YMembers, h \in HeightMembers}

\* header and footer elements: at the top, or level with page elements
GlobalsNamed(name) ==
    {JObj(<<KV("content", JStr(<<name>>)), KV("y", JNum(y))>>) : y \in {0, 40}}

\* lists of up to n elements, the k-th drawn from choices[k]
ElementLists(choices, n) ==
    UNION {{l \in [1 .. k -> UNION {choices[i] : i \in 1 .. k}] :
               \A i \in 1 .. k : l[i] \in choices[i]} : k \in 0 .. n}

HeaderLists == ElementLists([i \in 1 .. MaxGlobal |-> GlobalsNamed("H" \o ToString(i))], MaxGlobal)

LayoutLists == ElementLists([i \in 1 .. MaxElems |-> ElementsNamed("P" \o ToString(i))], MaxElems)

FooterLists == ElementLists([i \in 1 .. MaxGlobal |-> GlobalsNamed("F" \o ToString(i))], MaxGlobal)

ComposerModel(header, layout, footer) ==
    JObj(<<KV("globalHeader", JObj(<<KV("layout", JArr(header))>>)),
           KV("globalFooter", JObj(<<KV("layout", JArr(footer))>>)),
           KV("pages", JArr(<<Page(<<"home">>, layout)>>))>>)

ComposerInit ==
    /\ \E h \in HeaderLists, l \in LayoutLists, f \in FooterLists : model = ComposerModel(h, l, f)
    /\ response_text = <<>>
    /\ result = Absent
    /\ pc = "model"
    /\ website_data = Absent
    /\ html_content = Absent
    /\ current_view = "unset"
    /\ view_selector = "unset"
    /\ document = Absent

Assemble ==
    /\ pc = "model"
    /\ result' = generate_multi_page_html(model)
    /\ pc' = "composed"
    /\ UNCHANGED <<website_data, html_content, current_view, view_selector, document,
                   model, response_text>>

ComposerNext == Assemble

ComposerSpec == ComposerInit /\ [][ComposerNext]_vars

(***************************************************************************)
(* Runs of the element renderer: one element, rendered alone and rendered  *)
(* as the second element of a page.                                        *)
(***************************************************************************)
ElementTypes ==
    {<<"section">>, <<"card">>, <<"button">>, <<"input">>, <<"image">>, <<"text">>,
     <<"header">>, <<"footer">>, <<"widget">>}

TextColors == {<<"#ff0000">>, <<"#333">>}

FontSizes == {10, 14}

\* each member of an element possibly missing
TypeMembers == {<<>>} \cup {<<KV("type", JStr(t))>> : t \in ElementTypes}

TextColorMembers == {<<>>} \cup {<<KV("textColor", JStr(c))>> : c \in TextColors}

FontSizeMembers == {<<>>} \cup {<<KV("fontSize", JNum(n))>> : n \in FontSizes}

ContentMembers == {<<>>, <<KV("content", JStr(<<"Go">>))>>}

StyledElements ==
    {JObj(t \o c \o f \o k) :
        t \in TypeMembers, c \in TextColorMembers, f \in FontSizeMembers, k \in ContentMembers}

\* elements with a member, or the element itself, of another kind than the
\* schema gives it
MalformedElements ==
    {JObj(<<KV("type", JStr(<<"card">>)), KV("content", JNum(5))>>),
     JObj(<<KV("content", None)>>),
     JObj(<<KV("type", JNum(5)), KV("content", JStr(<<"Go">>))>>),
     JObj(<<KV("content", JStr(<<"Go">>)), KV("y", JStr(<<"40">>))>>),
     JObj(<<KV("content", JStr(<<"Go">>)), KV("height", None)>>),
     JStr(<<"card">>),
     None}

RendererElements == StyledElements \cup MalformedElements

\* a website of one page: a plain section, then the element
SiteAround(element) ==
    Website(<<Page(<<"home">>,
                   <<JObj(<<KV("type", JStr(<<"section">>)), KV("content", JStr(<<"Top">>))>>),
                     element>>)>>)

RendererInit ==
    /\ model \in RendererElements
    /\ response_text = <<>>
    /\ result = Absent
    /\ pc = "element"
    /\ website_data = Absent
    /\ html_content = Absent
    /\ current_view = "unset"
    /\ view_selector = "unset"
    /\ document = Absent

RenderElement ==
    /\ pc = "element"
    /\ result' = generate_element_html(model)
    /\ pc' = "rendered"
    /\ UNCHANGED <<website_data, html_content, current_view, view_selector, document,
                   model, response_text>>

ComposeAround ==
    /\ pc = "element"
    /\ result' = generate_multi_page_html(SiteAround(model))
    /\ pc' = "page composed"
    /\ UNCHANGED <<website_data, html_content, current_view, view_selector, document,
                   model, response_text>>

RendererNext == RenderElement \/ ComposeAround

RendererSpec == RendererInit /\ [][RendererNext]_vars

(***************************************************************************)
(* Properties of the composer (ComposerSpec).                              *)
(***************************************************************************)
\* globalHeader + page.layout + globalFooter of the model of a composer run
Joined ==
    Get(Get(model, "globalHeader", JObj(<<>>)), "layout", JArr(<<>>)).arr
    \o Get(Get(model, "pages", JArr(<<>>)).arr[1], "layout", JArr(<<>>)).arr
    \o Get(Get(model, "globalFooter", JObj(<<>>)), "layout", JArr(<<>>)).arr

Blocks == result.page_contents[1].elements

\* the place in the list joined of the element a rendered block shows
SourceIn(joined, block) ==
    CHOOSE i \in 1 .. Len(joined) :
        Get(joined[i], "content", None).str[1] = block.inner[Len(block.inner)]

SourceOf(block) == SourceIn(Joined, block)

YOf(el) == Get(el, "y", JNum(0)).num

BottomOf(el) == YOf(el) + Get(el, "height", JNum(0)).num

MinimumExtent == InitialMaxY + ExtentPadding

\* C7: the blocks of a composed page are the elements of globalHeader +
\* page.layout + globalFooter, one block each, in ascending order of y
\* (a missing y counting as 0), elements of equal y in their order in that
\* concatenation: each block comes from an element that has a smaller y
\* than the element of the next block, or the same y and an earlier place.
C7_StableSortByY ==
    pc = "composed" =>
        LET joined == Joined
            blocks == Blocks
        IN /\ Len(blocks) = Len(joined)
           /\ \A a \in 1 .. (Len(blocks) - 1) :
                  LET first == SourceIn(joined, blocks[a])
                      second == SourceIn(joined, blocks[a + 1])
                  IN \/ YOf(joined[first]) < YOf(joined[second])
                     \/ YOf(joined[first]) = YOf(joined[second]) /\ first < second

\* a composed page where the sort moved an element and two elements tie
C7_Witness ==
    /\ pc = "composed"
    /\ \E i, j \in 1 .. Len(Joined) : i < j /\ YOf(Joined[i]) > YOf(Joined[j])
    /\ \E i, j \in 1 .. Len(Joined) : i < j /\ YOf(Joined[i]) = YOf(Joined[j])

\* C8: the extent of a composed page is max(y + height) over its elements
\* plus the padding, and never below the minimum extent, which is positive
\* and is the extent of a page with no elements at all.
C8_ExtentWithFloor ==
    pc = "composed" =>
        LET extent == result.page_contents[1].min_height
            bottoms == {BottomOf(Joined[i]) : i \in 1 .. Len(Joined)}
            highest == CHOOSE m \in bottoms : \A o \in bottoms : o <= m
        IN /\ MinimumExtent > 0
           /\ extent >= MinimumExtent
           /\ Joined = <<>> => extent = MinimumExtent
           /\ Joined # <<>> =>
                  extent = IF highest + ExtentPadding > MinimumExtent
                           THEN highest + ExtentPadding
                           ELSE MinimumExtent

\* a composed page whose lowest edge, not the minimum, sets the extent, and
\* the element with that edge is not the last one rendered
C8_Witness ==
    /\ pc = "composed"
    /\ Len(Joined) >= 2
    /\ result.page_contents[1].min_height > MinimumExtent
    /\ BottomOf(Joined[SourceOf(Blocks[Len(Blocks)])]) + ExtentPadding
           < result.page_contents[1].min_height

(***************************************************************************)
(* Properties of the element renderer (RendererSpec).                      *)
(***************************************************************************)
\* the value of the last declaration of prop in a style, <<>> if it has none
LastDecl(style, prop) ==
    LET at == {i \in 1 .. Len(style) : style[i].prop = prop}
    IN IF at = {} THEN <<>>
       ELSE style[CHOOSE i \in at : \A j \in at : j <= i].val

\* the value of an inherited property that the content of a block is shown
\* with: the inner div's own declaration, else the last one of the block
Effective(block, prop) ==
    IF LastDecl(block.inner_style, prop) # <<>> THEN LastDecl(block.inner_style, prop)
    ELSE LastDecl(block.style, prop)

\* C12: whatever the type of an element, the content of its rendered block
\* is shown in the element's textColor when it has one and at the element's
\* fontSize when it has one; the defaults of the type take effect only for
\* an element without the override.
C12_OverrideWins ==
    (pc = "rendered" /\ result # Raised) =>
        /\ HasKey(model, "textColor") =>
               Effective(result, "color") = Get(model, "textColor", None).str
        /\ HasKey(model, "fontSize") =>
               Effective(result, "font-size")
                   = <<ToString(Get(model, "fontSize", None).num), "px">>

\* C13: a page is composed whatever its elements are: with an element of
\* an unknown type, with members missing or with a member of another kind
\* than expected (content that is not text), the document is produced and
\* the page has one block for each of its elements.
C13_BadElementNeverAborts ==
    (pc = "page composed" /\ IsObj(model)) =>
        /\ result # Raised
        /\ Len(result.page_contents) = 1
        /\ Len(result.page_contents[1].elements) = 2
        /\ \A k \in 1 .. 2 : result.page_contents[1].elements[k] # Raised

(***************************************************************************)
(* Properties of the document and the session (Spec).                      *)
(***************************************************************************)
Ready == document # Absent /\ document.phase = "ready"

OnlyAt(n, i) == [j \in 1 .. n |-> j = i]

\* C1: showPage with an id that no page has leaves the document as it was.
C1_UnknownIdLeavesDocument ==
    [][(\E id \in UnknownIds : ShowUnknownPage(id)) => document' = document]_vars

\* C2: once the document is loaded, showPage with the id of the active tab
\* changes nothing, and a second call leaves what the first call left.
C2_SwitchToActiveIsNoOp ==
    (Ready /\ FirstTabId(document, TRUE) # <<>>) =>
        LET id == FirstTabId(document, TRUE)
            once == showPage(document, id)
        IN once = document /\ showPage(once, id) = once

\* C3: the document has one tab per page, in page order, bound to the id of
\* its page; as parsed, the first page alone is shown and the first tab alone
\* is active; and showPage with the id of the i-th page shows the i-th page
\* alone and makes the i-th tab alone active.
C3_ExactlyTargetShown ==
    (document # Absent /\ html_content # Absent) =>
        LET n == Len(document.page_ids)
        IN /\ n = Len(html_content.page_contents)
           /\ document.tab_ids = document.page_ids
           /\ (document.phase = "parsed" /\ n > 0) =>
                  /\ document.desktop_pages = OnlyAt(n, 1)
                  /\ document.desktop_tabs = OnlyAt(n, 1)
           /\ document.phase = "ready" =>
                  \A i \in 1 .. n :
                      LET after == showPage(document, document.page_ids[i])
                      IN /\ after.desktop_pages = OnlyAt(n, i)
                         /\ after.mobile_pages = OnlyAt(n, i)
                         /\ after.desktop_tabs = OnlyAt(n, i)
                         /\ after.mobile_tabs = OnlyAt(n, i)

\* C4: the stored model and the stored document go together: both are
\* absent, or the document is the rendering of the model.
C4_ModelAndDocumentTogether ==
    \/ website_data = Absent /\ html_content = Absent
    \/ /\ website_data # Absent
       /\ html_content # Absent
       /\ html_content = generate_multi_page_html(website_data)

\* what the preview shows: the wrapper, the pages and the active tabs
Presentation(d) ==
    [desktop_view |-> d.desktop_view,
     mobile_view |-> d.mobile_view,
     edit_mode |-> d.edit_mode,
     desktop_pages |-> d.desktop_pages,
     mobile_pages |-> d.mobile_pages,
     desktop_tabs |-> d.desktop_tabs,
     mobile_tabs |-> d.mobile_tabs]

\* the document of a run of main() with the view js_mode, once its injected
\* script and its DOMContentLoaded listener ran
LoadedDocument(html, js_mode) ==
    OnDOMContentLoaded(switchView(ParsedDocument(html, js_mode), js_mode))

\* the loaded preview shows one page, in both wrappers, with its tab active
ShowsOnePage ==
    /\ Ready
    /\ \E i \in 1 .. Len(document.page_ids) :
           LET only == OnlyAt(Len(document.page_ids), i)
           IN /\ document.desktop_pages = only
              /\ document.mobile_pages = only
              /\ document.desktop_tabs = only
              /\ document.mobile_tabs = only

\* C11: a choice in the view selector, made while the loaded preview shows
\* one page, leaves the stored model and the stored document as they were,
\* and it can be undone: choosing afterwards the view the preview had before
\* brings back the presentation it had before (the same wrapper shown, the
\* same page shown, the same tab active).
C11_ViewToggleReversible ==
    [][\A option \in ViewOptions :
           (ShowsOnePage /\ SelectView(option)) =>
               /\ website_data' = website_data
               /\ html_content' = html_content
               /\ Presentation(LoadedDocument(html_content', document.js_mode))
                      = Presentation(document)]_vars

\* C14: whenever a wireframe is displayed, the view handed to its document
\* (current_view, the argument of the injected switchView) is the view of
\* the option selected in the view selector.
C14_ViewMatchesSelector ==
    document # Absent =>
        /\ view_selector \in ViewOptions
        /\ current_view = ViewOf(view_selector)
        /\ document.js_mode = ViewOf(view_selector)

(***************************************************************************)
(* Properties of the validator (ValidatorSpec).                            *)
(***************************************************************************)
Validated == pc \in {"validated bare", "validated fenced"}

HasPageList(v) ==
    /\ IsObj(v)
    /\ HasKey(v, "pages")
    /\ IsArr(Get(v, "pages", None))
    /\ Get(v, "pages", None).arr # <<>>

\* a "pages" list of at least one page object, each with a "layout" list
WellFormed(v) ==
    /\ HasPageList(v)
    /\ \A i \in 1 .. Len(Get(v, "pages", None).arr) :
           LET page == Get(v, "pages", None).arr[i]
           IN /\ IsObj(page)
              /\ HasKey(page, "layout")
              /\ IsArr(Get(page, "layout", None))

\* C5: a JSON object with a non-empty "pages" list comes back from the
\* validator with the same pages in the same order.
C5_PagesKept ==
    (Validated /\ HasPageList(model)) =>
        /\ HasPageList(result)
        /\ Len(Get(result, "pages", None).arr) = Len(Get(model, "pages", None).arr)
        /\ \A i \in 1 .. Len(Get(model, "pages", None).arr) :
               Get(result, "pages", None).arr[i] = Get(model, "pages", None).arr[i]

\* C6: the validator returns a parsed object as the model only when it has
\* a "pages" list of at least one page object, each page with a "layout"
\* list; every other parsed object is rejected.
C6_OnlyWellFormedReturned ==
    (Validated /\ IsObj(result)) => WellFormed(result)

\* C9: a website model written by the JSON download and read back by the
\* validator is the model.
C9_RoundTrip ==
    (pc = "validated bare" /\ WellFormed(model)) => result = model

\* C10: from a JSON object wrapped in a json-labelled fence, extraction takes
\* the text of the whole object.
C10_WholeObjectExtracted ==
    (pc = "fenced" /\ IsObj(model)) => ExtractedText(response_text) = Dumps(model)

====
